---- MODULE Spec2Model ----
(***************************************************************************)
(* Model of hebrew/chars.py: the HebrewChar dataclass, the literal table   *)
(* _ALL_CHARS, the CHARS dict and the FINAL_LETTERS / YIDDISH_LETTERS      *)
(* views built at import, and the classmethod HebrewChar.search.           *)
(*                                                                         *)
(* A Python str is modelled as the sequence of its Unicode code points, a  *)
(* Python list as a sequence, a dict as a function on its set of keys and  *)
(* an Optional[List[str]] as None (the empty tuple) or Some(list).         *)
(***************************************************************************)
EXTENDS Integers, Sequences, FiniteSets, TLC

\* Largest number of positions of a name whose case is flipped when the
\* queries handed to search are enumerated.
MaxFlips == 1

\* Longest prefix / suffix of a name handed to search as a partial name.
MaxPart == 4

---------------------------------------------------------------------------
\* class HebrewCharTypes(Enum)
LETTER == "letter"
YIDDISH_LETTER == "yiddish_letter"
PUNCTUATION == "punctuation"
NIKUD == "nikud"

\* Optional[...]: None, or a value
None == <<>>
Some(v) == <<v>>

\* The dataclass HebrewChar; the generated __init__ stores its arguments.
HebrewChar(char, name, hebrew_name, name_alts, hebrew_name_alts, final_letter, type) ==
    [char |-> char, name |-> name, hebrew_name |-> hebrew_name,
     name_alts |-> name_alts, hebrew_name_alts |-> hebrew_name_alts,
     final_letter |-> final_letter, type |-> type]

\* `x or []` for an Optional[List]: None and the empty list are both falsy.
OrEmptyList(x) == IF x = None THEN <<>> ELSE IF x[1] = <<>> THEN <<>> ELSE x[1]

\* property HebrewChar.hebrew_names
hebrew_names(self) == <<self.hebrew_name>> \o OrEmptyList(self.hebrew_name_alts)

\* property HebrewChar.names
names(self) == <<self.name>> \o OrEmptyList(self.name_alts)

\* str.lower() on one code point: A-Z, and the Greek capitals, map to their
\* lower-case letters 32 code points up; everything else the model handles
\* (digits, space, a-z, Hebrew letters and points) is left as it is.
LowerCp(c) ==
    IF c >= 65 /\ c =< 90 THEN c + 32
    ELSE IF c >= 913 /\ c =< 939 /\ c # 930 THEN c + 32
    ELSE c

\* str.lower()
Lower(s) == IF s = <<>> THEN <<>> ELSE [i \in 1..Len(s) |-> LowerCp(s[i])]

\* [n.lower() for n in lst]
LowerEach(lst) == IF lst = <<>> THEN <<>> ELSE [i \in 1..Len(lst) |-> Lower(lst[i])]

\* `x in lst` for a list
InList(x, lst) == \E i \in 1..Len(lst) : lst[i] = x

---------------------------------------------------------------------------
\* The records of the alphabet, as declared.

\* ALEPH: name 'Aleph', alts ['Alef'], char U+05D0
ALEPH ==
    HebrewChar(<<1488>>,
               <<65, 108, 101, 112, 104>>,
               <<1488, 1464, 1500, 1462, 1507>>,
               Some(<<<<65, 108, 101, 102>>>>),
               None,
               FALSE, LETTER)

\* BET: name 'Bet', alts None, char U+05D1 U+05BC
BET ==
    HebrewChar(<<1489, 1468>>,
               <<66, 101, 116>>,
               <<1489, 1461, 1468, 1497, 1514>>,
               None,
               None,
               FALSE, LETTER)

\* VET: name 'Vet', alts None, char U+05D1
VET ==
    HebrewChar(<<1489>>,
               <<86, 101, 116>>,
               <<1489, 1461, 1497, 1514>>,
               None,
               None,
               FALSE, LETTER)

\* GIMEL: name 'Gimel', alts None, char U+05D2
GIMEL ==
    HebrewChar(<<1490>>,
               <<71, 105, 109, 101, 108>>,
               <<1490, 1460, 1497, 1502, 1461, 1500>>,
               None,
               None,
               FALSE, LETTER)

\* DALET = DALED: name 'Dalet', alts ['Daled'], char U+05D3
DALET ==
    HebrewChar(<<1491>>,
               <<68, 97, 108, 101, 116>>,
               <<1491, 1464, 1500, 1462, 1514>>,
               Some(<<<<68, 97, 108, 101, 100>>>>),
               None,
               FALSE, LETTER)

\* HE = HEI = HEY: name 'He', alts ['Hei', 'Hey'], char U+05D4
HE ==
    HebrewChar(<<1492>>,
               <<72, 101>>,
               <<1492, 1461, 1488>>,
               Some(<<<<72, 101, 105>>, <<72, 101, 121>>>>),
               None,
               FALSE, LETTER)

\* VAV = VUV: name 'Vav', alts ['Vuv'], char U+05D5
VAV ==
    HebrewChar(<<1493>>,
               <<86, 97, 118>>,
               <<1493, 1464, 1493>>,
               Some(<<<<86, 117, 118>>>>),
               None,
               FALSE, LETTER)

\* ZAYIN: name 'Zayin', alts None, char U+05D6
ZAYIN ==
    HebrewChar(<<1494>>,
               <<90, 97, 121, 105, 110>>,
               <<1494, 1463, 1497, 1460, 1503>>,
               None,
               None,
               FALSE, LETTER)

\* CHET = HET = CHES: name 'Chet', alts ['Het', 'Ches'], char U+05D7
CHET ==
    HebrewChar(<<1495>>,
               <<67, 104, 101, 116>>,
               <<1495, 1461, 1497, 1514>>,
               Some(<<<<72, 101, 116>>, <<67, 104, 101, 115>>>>),
               None,
               FALSE, LETTER)

\* TET = TES: name 'Tet', alts ['Tes'], char U+05D8
TET ==
    HebrewChar(<<1496>>,
               <<84, 101, 116>>,
               <<1496, 1461, 1497, 1514>>,
               Some(<<<<84, 101, 115>>>>),
               None,
               FALSE, LETTER)

\* YOD = YUD: name 'Yod', alts ['Yud'], char U+05D9
YOD ==
    HebrewChar(<<1497>>,
               <<89, 111, 100>>,
               <<1497, 1493, 1465, 1491>>,
               Some(<<<<89, 117, 100>>>>),
               None,
               FALSE, LETTER)

\* CAF: name 'Kaf', alts None, char U+05DB U+05BC
CAF ==
    HebrewChar(<<1499, 1468>>,
               <<75, 97, 102>>,
               <<1499, 1463, 1468, 1507>>,
               None,
               None,
               FALSE, LETTER)

\* KAF_SOFIT = FINAL_KAF: name 'Kaf Sofit', alts ['Final Kaf'], char U+05DA U+05BC
KAF_SOFIT ==
    HebrewChar(<<1498, 1468>>,
               <<75, 97, 102, 32, 83, 111, 102, 105, 116>>,
               <<1499, 1463, 1468, 1507, 32, 1505, 1493, 1465, 1508, 1460, 1497, 1514>>,
               Some(<<<<70, 105, 110, 97, 108, 32, 75, 97, 102>>>>),
               None,
               TRUE, LETTER)

\* CHAF: name 'Chaf', alts None, char U+05DB
CHAF ==
    HebrewChar(<<1499>>,
               <<67, 104, 97, 102>>,
               <<1499, 1463, 1507>>,
               None,
               None,
               FALSE, LETTER)

\* CHAF_SOFIT = FINAL_CHAF: name 'Chaf Sofit', alts ['Final Chaf'], char U+05DA
CHAF_SOFIT ==
    HebrewChar(<<1498>>,
               <<67, 104, 97, 102, 32, 83, 111, 102, 105, 116>>,
               <<1499, 1463, 1507, 32, 1505, 1493, 1465, 1508, 1460, 1497, 1514>>,
               Some(<<<<70, 105, 110, 97, 108, 32, 67, 104, 97, 102>>>>),
               None,
               TRUE, LETTER)

\* LAMED = LAMID: name 'Lamed', alts ['Lamid'], char U+05DC
LAMED ==
    HebrewChar(<<1500>>,
               <<76, 97, 109, 101, 100>>,
               <<1500, 1464, 1502, 1462, 1491>>,
               Some(<<<<76, 97, 109, 105, 100>>>>),
               None,
               FALSE, LETTER)

\* MEM: name 'Mem', alts None, char U+05DE
MEM ==
    HebrewChar(<<1502>>,
               <<77, 101, 109>>,
               <<1502, 1461, 1501>>,
               None,
               None,
               FALSE, LETTER)

\* MEM_SOFIT = FINAL_MEM: name 'Mem Sofit', alts ['Final Mem'], char U+05DD
MEM_SOFIT ==
    HebrewChar(<<1501>>,
               <<77, 101, 109, 32, 83, 111, 102, 105, 116>>,
               <<1502, 1461, 1501, 32, 1505, 1493, 1465, 1508, 1460, 1497, 1514>>,
               Some(<<<<70, 105, 110, 97, 108, 32, 77, 101, 109>>>>),
               None,
               TRUE, LETTER)

\* NUN: name 'Nun', alts None, char U+05E0
NUN ==
    HebrewChar(<<1504>>,
               <<78, 117, 110>>,
               <<1504, 1493, 1468, 1503>>,
               None,
               None,
               FALSE, LETTER)

\* NUN_SOFIT = FINAL_NUN: name 'Nun Sofit', alts ['Final Nun'], char U+05DF
NUN_SOFIT ==
    HebrewChar(<<1503>>,
               <<78, 117, 110, 32, 83, 111, 102, 105, 116>>,
               <<1504, 1493, 1468, 1503, 32, 1505, 1493, 1465, 1508, 1460, 1497, 1514>>,
               Some(<<<<70, 105, 110, 97, 108, 32, 78, 117, 110>>>>),
               None,
               TRUE, LETTER)

\* SAMEKH = SAMACH: name 'Samekh', alts ['Samach'], char U+05E1
SAMEKH ==
    HebrewChar(<<1505>>,
               <<83, 97, 109, 101, 107, 104>>,
               <<1505, 1464, 1502, 1462, 1498>>,
               Some(<<<<83, 97, 109, 97, 99, 104>>>>),
               None,
               FALSE, LETTER)

\* AYIN: name 'Ayin', alts None, char U+05E2
AYIN ==
    HebrewChar(<<1506>>,
               <<65, 121, 105, 110>>,
               <<1506, 1463, 1497, 1460, 1503>>,
               None,
               None,
               FALSE, LETTER)

\* PE: name 'Pe', alts None, char U+05E4 U+05BC
PE ==
    HebrewChar(<<1508, 1468>>,
               <<80, 101>>,
               <<>>,
               None,
               None,
               FALSE, LETTER)

\* FE: name 'Fe', alts None, char U+05E4
FE ==
    HebrewChar(<<1508>>,
               <<70, 101>>,
               <<1508, 1461, 1488>>,
               None,
               None,
               FALSE, LETTER)

\* Mutation of PE_SOFIT: declared with the char of FE_SOFIT, the dagesh left out.
PE_SOFIT_CharOfFe ==
    HebrewChar(<<1507>>,
               <<70, 101, 32, 83, 111, 102, 105, 116>>,
               <<1508, 1461, 1468, 1488, 32, 1505, 1493, 1465, 1508, 1460, 1497, 1514>>,
               Some(<<<<70, 105, 110, 97, 108, 32, 80, 101>>>>),
               None,
               TRUE, LETTER)

\* PE_SOFIT = FINAL_PE: name 'Fe Sofit', alts ['Final Pe'], char U+05E3 U+05BC
PE_SOFIT ==
    HebrewChar(<<1507, 1468>>,
               <<70, 101, 32, 83, 111, 102, 105, 116>>,
               <<1508, 1461, 1468, 1488, 32, 1505, 1493, 1465, 1508, 1460, 1497, 1514>>,
               Some(<<<<70, 105, 110, 97, 108, 32, 80, 101>>>>),
               None,
               TRUE, LETTER)

\* FE_SOFIT = FINAL_FE: name 'Fe Sofit', alts ['Final Fe'], char U+05E3
FE_SOFIT ==
    HebrewChar(<<1507>>,
               <<70, 101, 32, 83, 111, 102, 105, 116>>,
               <<1508, 1461, 1488, 32, 1505, 1493, 1465, 1508, 1460, 1497, 1514>>,
               Some(<<<<70, 105, 110, 97, 108, 32, 70, 101>>>>),
               None,
               TRUE, LETTER)

\* TSADI = TZADIK: name 'Tsadi', alts ['Tzadik'], char U+05E6
TSADI ==
    HebrewChar(<<1510>>,
               <<84, 115, 97, 100, 105>>,
               <<1510, 1463, 1491, 1460, 1497>>,
               Some(<<<<84, 122, 97, 100, 105, 107>>>>),
               Some(<<<<1510, 1491, 1497, 1511>>>>),
               FALSE, LETTER)

\* Mutation of TSADI_SOFIT: final_letter=True left out.
TSADI_SOFIT_NotFinal ==
    HebrewChar(<<1509>>,
               <<84, 115, 97, 100, 105, 32, 83, 111, 102, 105, 116>>,
               <<1510, 1463, 1491, 1460, 1497, 32, 1505, 1493, 1465, 1508, 1460, 1497, 1514>>,
               None,
               Some(<<<<1510, 1491, 1497, 1511, 32, 1505, 1493, 1508, 1497, 1514>>>>),
               FALSE, LETTER)

\* TSADI_SOFIT = FINAL_TSADI = TZADIK_SOFIT = FINAL_TZADIK: name 'Tsadi Sofit', alts None, char U+05E5
TSADI_SOFIT ==
    HebrewChar(<<1509>>,
               <<84, 115, 97, 100, 105, 32, 83, 111, 102, 105, 116>>,
               <<1510, 1463, 1491, 1460, 1497, 32, 1505, 1493, 1465, 1508, 1460, 1497, 1514>>,
               None,
               Some(<<<<1510, 1491, 1497, 1511, 32, 1505, 1493, 1508, 1497, 1514>>>>),
               TRUE, LETTER)

\* QOF = KUF: name 'Qof', alts ['Kuf'], char U+05E7
QOF ==
    HebrewChar(<<1511>>,
               <<81, 111, 102>>,
               <<1511, 1493, 1465, 1507>>,
               Some(<<<<75, 117, 102>>>>),
               None,
               FALSE, LETTER)

\* RESH: name 'Resh', alts None, char U+05E8
RESH ==
    HebrewChar(<<1512>>,
               <<82, 101, 115, 104>>,
               <<1512, 1461, 1497, 1513, 1473>>,
               None,
               None,
               FALSE, LETTER)

\* SHIN: name 'Shin', alts None, char U+05E9 U+05C1
SHIN ==
    HebrewChar(<<1513, 1473>>,
               <<83, 104, 105, 110>>,
               <<1513, 1460, 1473, 1497, 1503>>,
               None,
               None,
               FALSE, LETTER)

\* SIN: name 'Sin', alts None, char U+05E9 U+05C2
SIN ==
    HebrewChar(<<1513, 1474>>,
               <<83, 105, 110>>,
               <<1513, 1460, 1474, 1497, 1503>>,
               None,
               None,
               FALSE, LETTER)

\* PLAIN_SIN: name 'Plain Sin', alts None, char U+05E9
PLAIN_SIN ==
    HebrewChar(<<1513>>,
               <<80, 108, 97, 105, 110, 32, 83, 105, 110>>,
               <<1513, 1460, 1473, 1497, 1503>>,
               None,
               Some(<<<<1513, 1460, 1474, 1497, 1503>>>>),
               FALSE, LETTER)

\* TAV = TAF: name 'Tav', alts ['Taf'], char U+05EA U+05BC
TAV ==
    HebrewChar(<<1514, 1468>>,
               <<84, 97, 118>>,
               <<1514, 1468, 1493>>,
               Some(<<<<84, 97, 102>>>>),
               None,
               FALSE, LETTER)

\* SAV = SAF: name 'Sav', alts ['Saf'], char U+05EA
SAV ==
    HebrewChar(<<1514>>,
               <<83, 97, 118>>,
               <<1514, 1464, 1493>>,
               Some(<<<<83, 97, 102>>>>),
               None,
               FALSE, LETTER)

\* DOUBLE_YOD = DOUBLE_YUD: name 'Double Yod', alts ['Saf'], char U+05F2
DOUBLE_YOD ==
    HebrewChar(<<1522>>,
               <<68, 111, 117, 98, 108, 101, 32, 89, 111, 100>>,
               <<>>,
               Some(<<<<83, 97, 102>>>>),
               None,
               FALSE, YIDDISH_LETTER)

\* DOUBLE_VAV = DOUBLE_VUV: name 'Double Vav', alts ['Double Vuv'], char U+05F0
DOUBLE_VAV ==
    HebrewChar(<<1520>>,
               <<68, 111, 117, 98, 108, 101, 32, 86, 97, 118>>,
               <<>>,
               Some(<<<<68, 111, 117, 98, 108, 101, 32, 86, 117, 118>>>>),
               None,
               FALSE, YIDDISH_LETTER)

\* VAV_YOD = VAV_YUD = VUV_YOD = VUV_YUD: name 'Vav Yod', alts None, char U+05F1
VAV_YOD ==
    HebrewChar(<<1521>>,
               <<86, 97, 118, 32, 89, 111, 100>>,
               <<>>,
               None,
               None,
               FALSE, YIDDISH_LETTER)

\* Mutation of _ALL_CHARS: SIN declared with the char of SHIN.
AllCharsSinAsShin ==
    <<ALEPH, BET, VET, GIMEL, DALET, HE,
       VAV, ZAYIN, CHET, TET, YOD, CAF,
       KAF_SOFIT, CHAF, CHAF_SOFIT, LAMED, MEM, MEM_SOFIT,
       NUN, NUN_SOFIT, SAMEKH, AYIN, PE, FE,
       PE_SOFIT, FE_SOFIT, TSADI, TSADI_SOFIT, QOF, RESH,
       SHIN, [SIN EXCEPT !.char = SHIN.char], PLAIN_SIN, TAV, SAV, DOUBLE_YOD,
       DOUBLE_VAV, VAV_YOD>>

\* The literal list _ALL_CHARS, in declaration order.
AllChars ==
    <<ALEPH, BET, VET, GIMEL, DALET, HE,
       VAV, ZAYIN, CHET, TET, YOD, CAF,
       KAF_SOFIT, CHAF, CHAF_SOFIT, LAMED, MEM, MEM_SOFIT,
       NUN, NUN_SOFIT, SAMEKH, AYIN, PE, FE,
       PE_SOFIT, FE_SOFIT, TSADI, TSADI_SOFIT, QOF, RESH,
       SHIN, SIN, PLAIN_SIN, TAV, SAV, DOUBLE_YOD,
       DOUBLE_VAV, VAV_YOD>>

---------------------------------------------------------------------------
\* Niqqud marks used below to build characters that no record has.
SIN_DOT == 1474
SHIN_DOT == 1473
DAGESH == 1468

\* Mutation of the dict comprehension: keyed by the first code point of
\* the char, {c.char[0]: c for c in tbl}.
RECURSIVE DictCompFirstCp(_, _)
DictCompFirstCp(tbl, n) ==
    IF n = 0 THEN <<>>
    ELSE LET d == DictCompFirstCp(tbl, n - 1)
             k == <<tbl[n].char[1]>>
         IN  [x \in (DOMAIN d) \cup {k} |-> IF x = k THEN tbl[n] ELSE d[x]]

\* {c.char: c for c in tbl}: the entries are stored in list order, a later
\* record replacing an earlier one that has the same key.
RECURSIVE DictComp(_, _)
DictComp(tbl, n) ==
    IF n = 0 THEN <<>>
    ELSE LET d == DictComp(tbl, n - 1)
             k == tbl[n].char
         IN  [x \in (DOMAIN d) \cup {k} |-> IF x = k THEN tbl[n] ELSE d[x]]

\* Mutation of the FINAL_LETTERS condition: the length test left out.
IsFinalLetterAnyLen(c) == c.final_letter

\* [c for c in tbl if c.final_letter and len(c.char) == 1]
IsFinalLetter(c) == c.final_letter /\ Len(c.char) = 1
FinalLetters(tbl) == SelectSeq(tbl, IsFinalLetter)

\* Mutation of the YIDDISH_LETTERS condition: the wrong member of the enum.
IsYiddishLetterWrongType(c) == c.type = LETTER

\* [c for c in tbl if c.type == HebrewCharTypes.YIDDISH_LETTER]
IsYiddishLetter(c) == c.type = YIDDISH_LETTER
YiddishLetters(tbl) == SelectSeq(tbl, IsYiddishLetter)

\* The outcome of a call: a returned value, or a raised exception.
Return(v) == [ret |-> v, exc |-> "none"]
Raise(e) == [ret |-> None, exc |-> e]

\* Mutation of d[k]: d.get(k), which returns None when k is not a key.
GetItemOrNone(d, k) == IF k \in DOMAIN d THEN Return(Some(d[k])) ELSE Return(None)

\* d[k]: dict.__getitem__ returns the value stored under k and raises
\* KeyError when k is not a key.
GetItem(d, k) == IF k \in DOMAIN d THEN Return(Some(d[k])) ELSE Raise("KeyError")

\* Mutation of search: char_name compared as given, .lower() left out.
RECURSIVE SearchFromNoFold(_, _, _, _)
SearchFromNoFold(tbl, chars, char_name, i) ==
    IF i > Len(tbl) THEN Return(None)
    ELSE IF InList(char_name, LowerEach(names(tbl[i])))
         THEN GetItem(chars, tbl[i].char)
         ELSE SearchFromNoFold(tbl, chars, char_name, i + 1)

\* HebrewChar.search: the loop over _ALL_CHARS from position i on.
RECURSIVE SearchFrom(_, _, _, _)
SearchFrom(tbl, chars, char_name, i) ==
    IF i > Len(tbl) THEN Return(None)
    ELSE IF InList(Lower(char_name), LowerEach(names(tbl[i])))
         THEN GetItem(chars, tbl[i].char)
         ELSE SearchFrom(tbl, chars, char_name, i + 1)

---------------------------------------------------------------------------
\* Inputs of the calls.

Positions(s) == 1..Len(s)

FlipCp(c) ==
    IF c >= 65 /\ c =< 90 THEN c + 32
    ELSE IF c >= 97 /\ c =< 122 THEN c - 32
    ELSE c

UpperCp(c) == IF c >= 97 /\ c =< 122 THEN c - 32 ELSE c

\* s with the case of the letters at the positions P flipped
Flip(s, P) == [i \in 1..Len(s) |-> IF i \in P THEN FlipCp(s[i]) ELSE s[i]]

\* Casings of a name: as declared with at most MaxFlips letters flipped,
\* all upper case, all lower case.
Casings(s) ==
    {Flip(s, P) : P \in {Q \in SUBSET Positions(s) : Cardinality(Q) =< MaxFlips}}
        \cup {[i \in 1..Len(s) |-> UpperCp(s[i])], Lower(s)}

\* Every name of every record of the table.
AllNames == UNION {{names(AllChars[i])[j] : j \in 1..Len(names(AllChars[i]))} :
                   i \in 1..Len(AllChars)}

\* Proper prefixes and suffixes of the names, the empty string included.
Parts(s) ==
    {SubSeq(s, 1, n) : n \in 0..(IF Len(s) - 1 < MaxPart THEN Len(s) - 1 ELSE MaxPart)}
        \cup {SubSeq(s, Len(s) - n + 1, Len(s)) :
                 n \in 0..(IF Len(s) - 1 < MaxPart THEN Len(s) - 1 ELSE MaxPart)}

\* "xyz123", "NotARealName", and the Greek capital omega
Xyz123 == <<120, 121, 122, 49, 50, 51>>
NotARealName == <<78, 111, 116, 65, 82, 101, 97, 108, 78, 97, 109, 101>>
Omega == <<937>>

Queries ==
    UNION {Casings(s) : s \in AllNames} \cup UNION {Parts(s) : s \in AllNames}
        \cup {Xyz123, NotARealName, Omega}

AllKeys == {AllChars[i].char : i \in 1..Len(AllChars)}

\* Characters handed to the dict: those of the table, each of them with a
\* niqqud mark appended, each without its last code point, and omega.
Keys ==
    AllKeys
        \cup {Append(k, m) : k \in AllKeys, m \in {SIN_DOT, SHIN_DOT, DAGESH}}
        \cup {SubSeq(k, 1, Len(k) - 1) : k \in AllKeys}
        \cup {Omega}

---------------------------------------------------------------------------
\* State: the module globals, and the call in hand with its outcome. Python
\* runs one call at a time: op is "idle" between calls.
VARIABLES ALL_CHARS, CHARS, FINAL_LETTERS, YIDDISH_LETTERS, op, arg, ret, exc

vars == <<ALL_CHARS, CHARS, FINAL_LETTERS, YIDDISH_LETTERS, op, arg, ret, exc>>
globals == <<ALL_CHARS, CHARS, FINAL_LETTERS, YIDDISH_LETTERS>>

\* The state when the import of the module has completed.
Init ==
    /\ ALL_CHARS = AllChars
    /\ CHARS = DictComp(AllChars, Len(AllChars))
    /\ FINAL_LETTERS = FinalLetters(AllChars)
    /\ YIDDISH_LETTERS = YiddishLetters(AllChars)
    /\ op = "idle"
    /\ arg = <<>>
    /\ ret = None
    /\ exc = "none"

\* HebrewChar.search(char_name)
Search(char_name) ==
    LET r == SearchFrom(ALL_CHARS, CHARS, char_name, 1)
    IN  /\ op = "idle"
        /\ op' = "search"
        /\ arg' = char_name
        /\ ret' = r.ret
        /\ exc' = r.exc
        /\ UNCHANGED globals

\* CHARS[key]
Lookup(key) ==
    LET r == GetItem(CHARS, key)
    IN  /\ op = "idle"
        /\ op' = "lookup"
        /\ arg' = key
        /\ ret' = r.ret
        /\ exc' = r.exc
        /\ UNCHANGED globals

\* A read of FINAL_LETTERS
ReadFinalLetters ==
    /\ op = "idle"
    /\ op' = "final_letters"
    /\ arg' = <<>>
    /\ ret' = Some(FINAL_LETTERS)
    /\ exc' = "none"
    /\ UNCHANGED globals

\* A read of YIDDISH_LETTERS
ReadYiddishLetters ==
    /\ op = "idle"
    /\ op' = "yiddish_letters"
    /\ arg' = <<>>
    /\ ret' = Some(YIDDISH_LETTERS)
    /\ exc' = "none"
    /\ UNCHANGED globals

\* Mutation of the names property: the canonical name is inserted into the
\* record's own name_alts list, which is then returned.
ReadNamesInPlace(i) ==
    LET c == [ALL_CHARS[i] EXCEPT !.name_alts = Some(names(ALL_CHARS[i]))]
    IN  /\ op = "idle"
        /\ op' = "names"
        /\ arg' = ALL_CHARS[i].char
        /\ ret' = Some(names(ALL_CHARS[i]))
        /\ exc' = "none"
        /\ ALL_CHARS' = [ALL_CHARS EXCEPT ![i] = c]
        /\ CHARS' = [CHARS EXCEPT ![c.char] = c]
        /\ UNCHANGED <<FINAL_LETTERS, YIDDISH_LETTERS>>

\* _ALL_CHARS[i - 1].names
ReadNames(i) ==
    /\ op = "idle"
    /\ op' = "names"
    /\ arg' = ALL_CHARS[i].char
    /\ ret' = Some(names(ALL_CHARS[i]))
    /\ exc' = "none"
    /\ UNCHANGED globals

\* _ALL_CHARS[i - 1].hebrew_names
ReadHebrewNames(i) ==
    /\ op = "idle"
    /\ op' = "hebrew_names"
    /\ arg' = ALL_CHARS[i].char
    /\ ret' = Some(hebrew_names(ALL_CHARS[i]))
    /\ exc' = "none"
    /\ UNCHANGED globals

\* The caller takes the outcome and goes on; the next call starts from idle.
CallerContinues ==
    /\ op # "idle"
    /\ op' = "idle"
    /\ arg' = <<>>
    /\ ret' = None
    /\ exc' = "none"
    /\ UNCHANGED globals

Next ==
    \/ \E q \in Queries : Search(q)
    \/ \E k \in Keys : Lookup(k)
    \/ ReadFinalLetters
    \/ ReadYiddishLetters
    \/ \E i \in 1..Len(ALL_CHARS) : ReadNames(i)
    \/ \E i \in 1..Len(ALL_CHARS) : ReadHebrewNames(i)
    \/ CallerContinues

Spec == Init /\ [][Next]_vars

---------------------------------------------------------------------------
\* Properties.

TableIdx == 1..Len(ALL_CHARS)
TableChars == {ALL_CHARS[i].char : i \in TableIdx}

\* c has a name equal to q once both are lower-cased
HasName(c, q) == \E j \in 1..Len(names(c)) : Lower(names(c)[j]) = Lower(q)

\* The positions of the table whose record has the name q
Matches(q) == {i \in TableIdx : HasName(ALL_CHARS[i], q)}

\* The names of the records of a list, in order
NamesOf(lst) == [j \in 1..Len(lst) |-> lst[j].name]

\* The module globals as the import built them
GlobalsAsBuilt ==
    /\ ALL_CHARS = AllChars
    /\ CHARS = DictComp(AllChars, Len(AllChars))
    /\ FINAL_LETTERS = FinalLetters(AllChars)
    /\ YIDDISH_LETTERS = YiddishLetters(AllChars)

\* "Kaf Sofit"
StrKafSofit == <<75, 97, 102, 32, 83, 111, 102, 105, 116>>
\* "Chaf Sofit"
StrChafSofit == <<67, 104, 97, 102, 32, 83, 111, 102, 105, 116>>
\* "Mem Sofit"
StrMemSofit == <<77, 101, 109, 32, 83, 111, 102, 105, 116>>
\* "Nun Sofit"
StrNunSofit == <<78, 117, 110, 32, 83, 111, 102, 105, 116>>
\* "Fe Sofit"
StrFeSofit == <<70, 101, 32, 83, 111, 102, 105, 116>>
\* "Tsadi Sofit"
StrTsadiSofit == <<84, 115, 97, 100, 105, 32, 83, 111, 102, 105, 116>>
\* "Double Yod"
StrDoubleYod == <<68, 111, 117, 98, 108, 101, 32, 89, 111, 100>>
\* "Double Vav"
StrDoubleVav == <<68, 111, 117, 98, 108, 101, 32, 86, 97, 118>>
\* "Vav Yod"
StrVavYod == <<86, 97, 118, 32, 89, 111, 100>>

\* C1: round trip of the name search. When search was called with any
\* casing of a name of a record R of the table, it returned a record whose
\* char is R.char.
C1_RoundTrip ==
    op = "search" =>
        \A i \in TableIdx :
            HasName(ALL_CHARS[i], arg) =>
                /\ exc = "none"
                /\ ret # None
                /\ ret[1].char = ALL_CHARS[i].char

\* C2: key uniqueness. No two records at different positions of the table
\* have the same char, and CHARS has one entry for each record of the table.
C2_KeyUniqueness ==
    /\ \A i, j \in TableIdx : i # j => ALL_CHARS[i].char # ALL_CHARS[j].char
    /\ Cardinality(DOMAIN CHARS) = Len(ALL_CHARS)

\* C2 witness: the table holds records whose chars differ only by the point
\* that follows the same base letter, and CHARS keeps an entry for each.
C2_Witness ==
    \E i, j \in TableIdx :
        /\ i # j
        /\ ALL_CHARS[i].char[1] = ALL_CHARS[j].char[1]
        /\ ALL_CHARS[i].char \in DOMAIN CHARS
        /\ ALL_CHARS[j].char \in DOMAIN CHARS
        /\ CHARS[ALL_CHARS[i].char] # CHARS[ALL_CHARS[j].char]

\* C3: lookup consistency. A lookup of the char of a record R of the table
\* in CHARS returned a record equal to R in every field.
C3_LookupConsistency ==
    \A i \in TableIdx :
        (op = "lookup" /\ arg = ALL_CHARS[i].char) =>
            (exc = "none" /\ ret = Some(ALL_CHARS[i]))

\* C3 witness: a lookup of a char of two code points returned its record.
C3_Witness ==
    /\ op = "lookup"
    /\ Len(arg) = 2
    /\ arg \in TableChars
    /\ exc = "none"
    /\ ret # None
    /\ ret[1].char = arg

\* C4 as claimed: a read of FINAL_LETTERS gave exactly 5 records of one code
\* point named Kaf Sofit, Chaf Sofit, Mem Sofit, Nun Sofit, Fe Sofit.
C4_FinalLettersAsClaimed ==
    op = "final_letters" =>
        /\ Len(ret[1]) = 5
        /\ \A j \in 1..Len(ret[1]) : Len(ret[1][j].char) = 1
        /\ NamesOf(ret[1]) =
               <<StrKafSofit, StrChafSofit, StrMemSofit, StrNunSofit, StrFeSofit>>

\* C4 amended: a read of FINAL_LETTERS gave exactly 5 records of one code
\* point named Chaf Sofit, Mem Sofit, Nun Sofit, Fe Sofit, Tsadi Sofit.
C4_FinalLettersAmended ==
    op = "final_letters" =>
        /\ Len(ret[1]) = 5
        /\ \A j \in 1..Len(ret[1]) : Len(ret[1][j].char) = 1
        /\ NamesOf(ret[1]) =
               <<StrChafSofit, StrMemSofit, StrNunSofit, StrFeSofit, StrTsadiSofit>>

\* C4 witness: FINAL_LETTERS was read, and the record named Kaf Sofit, whose
\* char is two code points, is not in it while the one named Tsadi Sofit is.
C4_Witness ==
    /\ op = "final_letters"
    /\ ret # None
    /\ ~ \E j \in 1..Len(ret[1]) : ret[1][j].name = StrKafSofit
    /\ \E j \in 1..Len(ret[1]) : ret[1][j].name = StrTsadiSofit

\* C5: derived view of the final letters. A record of the table is in
\* FINAL_LETTERS exactly when its final_letter flag is set and its char is
\* one code point (so a final form of several code points is left out);
\* every entry of FINAL_LETTERS is a record of the table, no record is in
\* it twice, and the entries keep the order of the table.
C5_FinalLettersView ==
    /\ \A i \in TableIdx :
           (\E j \in 1..Len(FINAL_LETTERS) : FINAL_LETTERS[j] = ALL_CHARS[i])
               <=> (ALL_CHARS[i].final_letter /\ Len(ALL_CHARS[i].char) = 1)
    /\ \A i \in TableIdx :
           (ALL_CHARS[i].final_letter /\ Len(ALL_CHARS[i].char) > 1) =>
               ~ \E j \in 1..Len(FINAL_LETTERS) : FINAL_LETTERS[j] = ALL_CHARS[i]
    /\ \A j \in 1..Len(FINAL_LETTERS) : \E i \in TableIdx : ALL_CHARS[i] = FINAL_LETTERS[j]
    /\ \A j, k \in 1..Len(FINAL_LETTERS) : j # k => FINAL_LETTERS[j] # FINAL_LETTERS[k]
    /\ \A j, k \in 1..Len(FINAL_LETTERS) :
           j < k => \A a, b \in TableIdx :
                        (ALL_CHARS[a] = FINAL_LETTERS[j] /\ ALL_CHARS[b] = FINAL_LETTERS[k])
                            => a < b

\* C5 witness: FINAL_LETTERS was read; the table holds a final form of two
\* code points that the view leaves out and two final forms that it keeps.
C5_Witness ==
    /\ op = "final_letters"
    /\ ret = Some(FINAL_LETTERS)
    /\ \E i \in TableIdx :
           /\ ALL_CHARS[i].final_letter
           /\ Len(ALL_CHARS[i].char) = 2
           /\ ~ \E j \in 1..Len(FINAL_LETTERS) : FINAL_LETTERS[j] = ALL_CHARS[i]
    /\ Len(FINAL_LETTERS) >= 2

\* C6: YIDDISH_LETTERS holds exactly the records of the table whose type is
\* yiddish_letter, and is the list of 3 records named Double Yod, Double
\* Vav, Vav Yod.
C6_YiddishLetters ==
    /\ \A i \in TableIdx :
           (\E j \in 1..Len(YIDDISH_LETTERS) : YIDDISH_LETTERS[j] = ALL_CHARS[i])
               <=> ALL_CHARS[i].type = YIDDISH_LETTER
    /\ \A j \in 1..Len(YIDDISH_LETTERS) : \E i \in TableIdx : ALL_CHARS[i] = YIDDISH_LETTERS[j]
    /\ Len(YIDDISH_LETTERS) = 3
    /\ NamesOf(YIDDISH_LETTERS) = <<StrDoubleYod, StrDoubleVav, StrVavYod>>
    /\ op = "yiddish_letters" => ret = Some(YIDDISH_LETTERS)

\* C6 witness: YIDDISH_LETTERS was read and gave three records, none of
\* them of type letter.
C6_Witness ==
    /\ op = "yiddish_letters"
    /\ ret # None
    /\ Len(ret[1]) = 3
    /\ \A j \in 1..Len(ret[1]) : ret[1][j].type = YIDDISH_LETTER

C8_SearchFirstMatch ==
    op = "search" =>
        IF Matches(arg) = {}
        THEN exc = "none" /\ ret = None
        ELSE LET first == CHOOSE i \in Matches(arg) : \A k \in Matches(arg) : i =< k
             IN  exc = "none" /\ ret = Some(CHARS[ALL_CHARS[first].char])

\* C8 witness: search was called with a name, in a casing no record
\* declares, that two records have, and returned the earlier of the two.
C8_Witness ==
    /\ op = "search"
    /\ Cardinality(Matches(arg)) >= 2
    /\ \A i \in TableIdx : ~ InList(arg, names(ALL_CHARS[i]))
    /\ ret # None
    /\ \E i \in Matches(arg) :
           /\ ret[1] = ALL_CHARS[i]
           /\ \E k \in Matches(arg) : i < k

\* C8 second case, reached as well: a partial name was not found.
C8_WitnessNotFound ==
    /\ op = "search"
    /\ arg # <<>>
    /\ \E s \in AllNames : Len(arg) < Len(s) /\ SubSeq(s, 1, Len(arg)) = arg
    /\ ret = None
    /\ exc = "none"

\* C9: the operations only read. In every state reached by calls of search,
\* lookups by char and reads of FINAL_LETTERS, YIDDISH_LETTERS, names and
\* hebrew_names, the table, CHARS and both views, with every field of every
\* record, are as the import built them, and a read of a view returns it.
C9_ReadOnly ==
    /\ GlobalsAsBuilt
    /\ op = "final_letters" => ret = Some(FinalLetters(AllChars))
    /\ op = "yiddish_letters" => ret = Some(YiddishLetters(AllChars))

\* C9 witness: names was read on a record that has aliases, giving a list
\* longer than the record's own name_alts list.
C9_Witness ==
    /\ op = "names"
    /\ \E i \in TableIdx :
           /\ ALL_CHARS[i].char = arg
           /\ ALL_CHARS[i].name_alts # None
           /\ Len(ret[1]) = Len(ALL_CHARS[i].name_alts[1]) + 1

\* C10: soundness of search. Whenever search returned a record, the query
\* lower-cased equals the lower-casing of one of that record's names.
C10_SearchSound ==
    (op = "search" /\ ret # None) => HasName(ret[1], arg)

\* C10 witness: search returned a record of a char of two code points, one
\* whose base letter is the char of another record.
C10_Witness ==
    /\ op = "search"
    /\ ret # None
    /\ Len(ret[1].char) = 2
    /\ \E i \in TableIdx : ALL_CHARS[i].char = <<ret[1].char[1]>>
    /\ HasName(ret[1], arg)

====
